---- MODULE Spec2Model ----
(***************************************************************************)
(* Typed transactions of ethcore/types/src/transaction/transaction.rs:     *)
(* the wire codec (legacy and access-list), the replay protection of the   *)
(* signature's v, and the pipeline Unverified -> Signed -> Localized.      *)
(*                                                                         *)
(* Bytes are numbers 0..255 and byte strings are sequences of them.  An    *)
(* u64 is its 8 big-endian bytes, so that its arithmetic keeps the width   *)
(* of the code's; an U256 is its big-endian bytes without leading zeros    *)
(* (the code only compares, encodes and decodes them).                     *)
(***************************************************************************)
EXTENDS Integers, Sequences, FiniteSets, TLC

\* ------------------------------------------------------------------------
\* Byte strings
\* ------------------------------------------------------------------------

RECURSIVE Concat(_)
Concat(ss) == IF ss = <<>> THEN <<>> ELSE Head(ss) \o Concat(Tail(ss))

Repeat(b, n) == SubSeq([i \in 1..n |-> b], 1, n)

Drop(b, n) == SubSeq(b, n + 1, Len(b))

RECURSIVE StripZeros(_)
StripZeros(b) == IF b # <<>> /\ Head(b) = 0 THEN StripZeros(Tail(b)) ELSE b

\* The big-endian bytes of a length (an usize), without leading zeros.
RECURSIVE ToBE(_)
ToBE(n) == IF n = 0 THEN <<>> ELSE ToBE(n \div 256) \o <<n % 256>>

RECURSIVE FromBE(_)
FromBE(b) == IF b = <<>> THEN 0 ELSE FromBE(SubSeq(b, 1, Len(b) - 1)) * 256 + b[Len(b)]

\* ------------------------------------------------------------------------
\* u64 arithmetic, on 8 big-endian bytes
\* ------------------------------------------------------------------------

U64Bytes == 8

\* The u64 of a small number (below 2^31).
U64(n) == Repeat(0, U64Bytes - 4)
          \o <<(n \div 16777216) % 256, (n \div 65536) % 256, (n \div 256) % 256, n % 256>>

\* a + b modulo 2^64, and whether the sum left the 64 bits.
WrappingAdd(a, b) ==
    LET c[i \in 1..(U64Bytes + 1)] ==
            IF i = U64Bytes + 1 THEN 0 ELSE (a[i] + b[i] + c[i + 1]) \div 256
    IN  SubSeq([i \in 1..U64Bytes |-> (a[i] + b[i] + c[i + 1]) % 256], 1, U64Bytes)

AddOverflows(a, b) ==
    LET c[i \in 1..(U64Bytes + 1)] ==
            IF i = U64Bytes + 1 THEN 0 ELSE (a[i] + b[i] + c[i + 1]) \div 256
    IN  c[1] = 1

\* a - b modulo 2^64 (the code subtracts only where a >= b).
WrappingSub(a, b) ==
    LET br[i \in 1..(U64Bytes + 1)] ==
            IF i = U64Bytes + 1 THEN 0
            ELSE IF a[i] - b[i] - br[i + 1] < 0 THEN 1 ELSE 0
    IN  SubSeq([i \in 1..U64Bytes |-> (256 + a[i] - b[i] - br[i + 1]) % 256],
               1, U64Bytes)

\* a / 2
Half(a) ==
    SubSeq([i \in 1..U64Bytes |->
               (a[i] \div 2) + (IF i > 1 THEN (a[i - 1] % 2) * 128 ELSE 0)],
           1, U64Bytes)

\* a % 2
Parity(a) == a[U64Bytes] % 2

\* a < b, for two big-endian numbers of the same length
RECURSIVE LessBE(_, _)
LessBE(a, b) ==
    IF a = <<>> THEN FALSE
    ELSE IF Head(a) # Head(b) THEN Head(a) < Head(b)
    ELSE LessBE(Tail(a), Tail(b))

GreaterEq(a, b) == ~LessBE(a, b)

\* ------------------------------------------------------------------------
\* RLP: the stream (encoder)
\* ------------------------------------------------------------------------

\* RlpStream::append of a byte string (encoder().encode_value).
RlpStr(b) ==
    IF Len(b) = 1 /\ b[1] < 128 THEN b
    ELSE IF Len(b) <= 55 THEN <<128 + Len(b)>> \o b
    ELSE <<183 + Len(ToBE(Len(b)))>> \o ToBE(Len(b)) \o b

\* RlpStream::begin_list(n) followed by the n appended items.
RlpList(items) ==
    LET payload == Concat(items)
    IN  IF Len(payload) <= 55 THEN <<192 + Len(payload)>> \o payload
        ELSE <<247 + Len(ToBE(Len(payload)))>> \o ToBE(Len(payload)) \o payload

\* append(&u64): the big-endian bytes without leading zeros.
RlpU64(n) == RlpStr(StripZeros(n))

\* append(&U256): an U256 is kept as its bytes without leading zeros.
RlpU256(n) == RlpStr(n)

\* ------------------------------------------------------------------------
\* RLP: the view (decoder).  A result is [err, val]; err = "ok" is success.
\* ------------------------------------------------------------------------

Ok(v) == [err |-> "ok", val |-> v]

Err(e) == [err |-> e, val |-> <<>>]

\* The `?` of the code: the error of r returned as it is, or K of its value.
Try(r, K(_)) == IF r.err # "ok" THEN r ELSE K(r.val)

\* PayloadInfo::from: the header and payload lengths of the item b starts with.
PayloadInfo(b) ==
    IF b = <<>> THEN Err("RlpIsTooShort")
    ELSE LET h  == b[1]
             ll == IF h >= 248 THEN h - 247 ELSE h - 183
             info(hd, ln) ==
                 IF hd + ln > Len(b) THEN Err("RlpIsTooShort")
                 ELSE Ok([hdr |-> hd, len |-> ln])
         IN  IF h < 128 THEN info(0, 1)
             ELSE IF h <= 183 THEN
                 IF h = 129 /\ Len(b) >= 2 /\ b[2] < 128
                 THEN Err("RlpInvalidIndirection")
                 ELSE info(1, h - 128)
             ELSE IF h >= 192 /\ h <= 247 THEN info(1, h - 192)
             ELSE IF Len(b) < 1 + ll THEN Err("RlpIsTooShort")
             ELSE IF b[2] = 0 THEN Err("RlpDataLenWithZeroPrefix")
             ELSE IF FromBE(SubSeq(b, 2, 1 + ll)) <= 55 THEN Err("RlpInvalidIndirection")
             ELSE info(1 + ll, FromBE(SubSeq(b, 2, 1 + ll)))

IsNull(b) == b = <<>>

IsList(b) == b # <<>> /\ b[1] >= 192

IsData(b) == b # <<>> /\ b[1] < 192

\* Rlp::is_empty: the empty string or the empty list.
IsEmpty(b) == b # <<>> /\ b[1] \in {128, 192}

\* Rlp::data: the payload of a byte string.
Data(b) ==
    IF IsList(b) THEN Err("RlpExpectedToBeData")
    ELSE Try(PayloadInfo(b), LAMBDA pi : Ok(SubSeq(b, pi.hdr + 1, pi.hdr + pi.len)))

\* The items a list's payload is made of, each as its own bytes.
RECURSIVE SplitItems(_)
SplitItems(p) ==
    IF p = <<>> THEN Ok(<<>>)
    ELSE Try(PayloadInfo(p), LAMBDA pi :
         Try(SplitItems(Drop(p, pi.hdr + pi.len)), LAMBDA rest :
         Ok(<<SubSeq(p, 1, pi.hdr + pi.len)>> \o rest)))

Items(b) ==
    IF ~IsList(b) THEN Err("RlpExpectedToBeList")
    ELSE Try(PayloadInfo(b), LAMBDA pi :
         SplitItems(SubSeq(b, pi.hdr + 1, pi.hdr + pi.len)))

\* Rlp::item_count
ItemCount(b) == Try(Items(b), LAMBDA its : Ok(Len(its)))

\* Rlp::at(i), i counted from 0
At(b, i) ==
    Try(Items(b), LAMBDA its :
        IF i >= Len(its) THEN Err("RlpIsTooShort") ELSE Ok(its[i + 1]))

\* Decodable for U256 and for u64: big-endian, no leading zero, at most n bytes.
ValUint(b, n) ==
    Try(Data(b), LAMBDA d :
        IF d # <<>> /\ d[1] = 0 THEN Err("RlpInvalidIndirection")
        ELSE IF Len(d) > n THEN Err("RlpIsTooBig")
        ELSE Ok(d))

ValU256(b) == ValUint(b, 32)

ValU64(b) == Try(ValUint(b, U64Bytes), LAMBDA r : Ok(Repeat(0, U64Bytes - Len(r)) \o r))

\* Decodable for H160 and H256: exactly n bytes.
ValHash(b, n) ==
    Try(Data(b), LAMBDA d :
        IF Len(d) < n THEN Err("RlpIsTooShort")
        ELSE IF Len(d) > n THEN Err("RlpIsTooBig")
        ELSE Ok(d))

ValH160(b) == ValHash(b, 20)

ValH256(b) == ValHash(b, 32)

\* Decodable for Vec<u8>
ValBytes(b) == Data(b)

\* Rlp::val_at(i): at(i)?.as_val()
ValAt(b, i, Dec(_)) == Try(At(b, i), Dec)

\* ------------------------------------------------------------------------
\* keccak and the ethkey primitives, at a reduced width: a digest has 4
\* bytes, a signature's r is the signing secret followed by the digest.
\* ------------------------------------------------------------------------

\* A polynomial of the bytes modulo a prime, by halves: [h, w] are the value
\* and the weight base^length of the range lo..hi of b.
RECURSIVE Poly(_, _, _, _, _)
Poly(b, lo, hi, base, p) ==
    IF lo = hi THEN [h |-> (b[lo] + 1) % p, w |-> base]
    ELSE LET mid == (lo + hi) \div 2
             l   == Poly(b, lo, mid, base, p)
             r   == Poly(b, mid + 1, hi, base, p)
         IN  [h |-> (l.h * r.w + r.h) % p, w |-> (l.w * r.w) % p]

keccak(b) ==
    LET h1 == IF b = <<>> THEN 0 ELSE Poly(b, 1, Len(b), 257, 46337).h
        h2 == IF b = <<>> THEN 0 ELSE Poly(b, 1, Len(b), 263, 46327).h
    IN  <<h1 \div 256, h1 % 256, h2 \div 256, h2 % 256>>

\* 0.into() for an H256
ZeroHash == <<0, 0, 0, 0>>

\* The secrets of the model; any other number is no valid secret.
Secrets == {1, 2}

Public(secret) == <<4, secret>>

\* public_to_address: the last 20 bytes of the public key's keccak.
public_to_address(public) == Repeat(0, 16) \o keccak(public)

\* The signature ethkey::sign computes: deterministic, with a low s.
SignatureOf(secret, message) ==
    [r |-> <<secret>> \o message,
     s |-> <<16 + secret>>,
     v |-> (secret + message[4]) % 2]

\* ethkey::sign
sign(secret, message) ==
    IF secret \in Secrets THEN Ok(SignatureOf(secret, message))
    ELSE Err("InvalidSecret")

\* ethkey::recover: the signer's key for a signature over this message; for
\* any other r, s and message the key of nobody, or no key at all; no key
\* when the recovery id is not 0 or 1.
recover(sig, message) ==
    LET junk == keccak(sig.r \o <<0>> \o sig.s \o <<sig.v>> \o message)
    IN  IF sig.v \notin {0, 1} THEN Err("InvalidSignature")
        ELSE IF sig.r = <<>> \/ sig.s = <<>> THEN Err("InvalidSignature")
        ELSE IF \E k \in Secrets : SignatureOf(k, message) = sig
            THEN Ok(Public(CHOOSE k \in Secrets : SignatureOf(k, message) = sig))
        ELSE IF junk[4] % 2 = 0 THEN Err("InvalidSignature")
        ELSE Ok(<<5>> \o junk)

\* Half the order of secp256k1, as 32 big-endian bytes.
HalfOrder ==
    <<127, 255, 255, 255, 255, 255, 255, 255, 255, 255, 255, 255, 255, 255, 255, 255,
      93, 87, 110, 115, 87, 164, 80, 29, 223, 233, 47, 70, 104, 27, 32, 160>>

\* Signature::is_low_s
is_low_s(s) == ~LessBE(HalfOrder, Repeat(0, 32 - Len(s)) \o s)

\* ------------------------------------------------------------------------
\* The data model
\* ------------------------------------------------------------------------

None == [some |-> FALSE]

Some(v) == [some |-> TRUE, val |-> v]

Create == [kind |-> "Create", addr |-> <<>>]

Call(a) == [kind |-> "Call", addr |-> a]

\* H160([0xff; 20])
UNSIGNED_SENDER == Repeat(255, 20)

Legacy(tx) == [type |-> "Legacy", transaction |-> tx, access_list |-> <<>>]

AccessList(tx, accl) == [type |-> "AccessList", transaction |-> tx, access_list |-> accl]

\* TypedTransaction::tx_type
tx_type(t) == IF t.type = "Legacy" THEN 0 ELSE 3

\* ------------------------------------------------------------------------
\* Replay protection of v
\* ------------------------------------------------------------------------

\* signature::add_chain_replay_protection, in wrapping arithmetic, and
\* whether one of its operations overflows the u64.
add_chain_replay_protection(v, chain_id) ==
    WrappingAdd(v, IF chain_id.some
                   THEN WrappingAdd(U64(35), WrappingAdd(chain_id.val, chain_id.val))
                   ELSE U64(27))

add_chain_replay_protection_overflows(v, chain_id) ==
    IF chain_id.some
    THEN \/ AddOverflows(chain_id.val, chain_id.val)
         \/ AddOverflows(U64(35), WrappingAdd(chain_id.val, chain_id.val))
         \/ AddOverflows(v, WrappingAdd(U64(35), WrappingAdd(chain_id.val, chain_id.val)))
    ELSE AddOverflows(v, U64(27))

\* check_replay_protection with v mod 2 in the place of (v - 1) mod 2.
check_replay_protection_of_v(v) ==
    IF v = U64(27) THEN 0
    ELSE IF v = U64(28) THEN 1
    ELSE IF GreaterEq(v, U64(35)) THEN Parity(v)
    ELSE 4

\* signature::check_replay_protection
check_replay_protection(v) ==
    IF v = U64(27) THEN 0
    ELSE IF v = U64(28) THEN 1
    ELSE IF GreaterEq(v, U64(35)) THEN Parity(WrappingSub(v, U64(1)))
    ELSE 4

\* ------------------------------------------------------------------------
\* The codec
\* ------------------------------------------------------------------------

\* RlpStream::begin_list(n) and the items appended after it: the first n
\* make the list, the others follow it; with fewer than n the stream is
\* unfinished and gives no bytes.
BeginList(n, items) ==
    IF Len(items) < n THEN <<>>
    ELSE RlpList(SubSeq(items, 1, n)) \o Concat(Drop(items, n))

\* impl Encodable for Action
ActionEncode(a) == IF a.kind = "Create" THEN RlpStr(<<>>) ELSE RlpStr(a.addr)

\* A decoder of Action that takes every action for a creation.
ActionDecodeAsCreate(b) ==
    IF IsEmpty(b) /\ ~IsData(b) THEN Err("RlpExpectedToBeData") ELSE Ok(Create)

\* A decoder of Action that takes every empty item, the empty list too, for a
\* creation.
ActionDecodeEmptyAsCreate(b) ==
    IF IsEmpty(b) THEN Ok(Create)
    ELSE Try(ValH160(b), LAMBDA a : Ok(Call(a)))

\* impl Decodable for Action
ActionDecode(b) ==
    IF IsEmpty(b)
    THEN IF IsData(b) THEN Ok(Create) ELSE Err("RlpExpectedToBeData")
    ELSE Try(ValH160(b), LAMBDA a : Ok(Call(a)))

\* SignatureComponents::rlp_append
SignatureAppend(sig) == <<RlpU64(sig.v), RlpU256(sig.r), RlpU256(sig.s)>>

\* Transaction::rlp_append_open
rlp_append_open(tx, chain_id) ==
    <<RlpU256(tx.nonce), RlpU256(tx.gas_price), RlpU256(tx.gas),
      ActionEncode(tx.action), RlpU256(tx.value), RlpStr(tx.data)>>
    \o (IF chain_id.some
        THEN <<RlpU64(chain_id.val), RlpU64(U64(0)), RlpU64(U64(0))>>
        ELSE <<>>)

\* Transaction::encode
TransactionEncode(tx, chain_id, signature) ==
    BeginList(6 + (IF chain_id.some THEN 3 ELSE 0) + (IF signature.some THEN 3 ELSE 0),
              rlp_append_open(tx, chain_id)
              \o (IF signature.some THEN SignatureAppend(signature.val) ELSE <<>>))

\* Transaction::hash
TransactionHash(tx, chain_id) == keccak(TransactionEncode(tx, chain_id, None))

\* The access list as AccessListTx::encode appends it.
AccessListEncode(accl) ==
    RlpList([i \in 1..Len(accl) |->
        RlpList(<<RlpStr(accl[i].address),
                  RlpList([j \in 1..Len(accl[i].keys) |-> RlpStr(accl[i].keys[j])])>>)])

\* AccessListTx::encode
AccessListTxEncode(t, signature) ==
    <<3>> \o BeginList(7 + (IF signature.some THEN 3 ELSE 0),
                       rlp_append_open(t.transaction, None)
                       \o <<AccessListEncode(t.access_list)>>
                       \o (IF signature.some THEN SignatureAppend(signature.val) ELSE <<>>))

\* AccessListTx::hash
AccessListTxHash(t) == keccak(AccessListTxEncode(t, None))

\* TypedTransaction::hash
TypedHash(t, chain_id) ==
    IF t.type = "Legacy" THEN TransactionHash(t.transaction, chain_id)
    ELSE AccessListTxHash(t)

\* TypedTransaction::rlp_append; AccessListTx::rlp_append appends the
\* encoding as one byte string.
TypedRlpAppend(t, signature) ==
    IF t.type = "Legacy" THEN TransactionEncode(t.transaction, None, Some(signature))
    ELSE RlpStr(AccessListTxEncode(t, Some(signature)))

\* impl Encodable for UnverifiedTransaction (rlp_bytes)
rlp_bytes(u) == TypedRlpAppend(u.unsigned, u.signature)

\* UnverifiedTransaction::new
UnverifiedNew(transaction, signature, hash) ==
    [unsigned |-> transaction, signature |-> signature, hash |-> hash]

\* UnverifiedTransaction::compute_hash
compute_hash(u) == [u EXCEPT !.hash = keccak(rlp_bytes(u))]

\* Transaction::decode_data
decode_data(d) ==
    Try(ValAt(d, 0, ValU256), LAMBDA nonce :
    Try(ValAt(d, 1, ValU256), LAMBDA gas_price :
    Try(ValAt(d, 2, ValU256), LAMBDA gas :
    Try(ValAt(d, 3, ActionDecode), LAMBDA action :
    Try(ValAt(d, 4, ValU256), LAMBDA value :
    Try(ValAt(d, 5, ValBytes), LAMBDA data :
    Ok([nonce |-> nonce, gas_price |-> gas_price, gas |-> gas,
        action |-> action, value |-> value, data |-> data])))))))

\* SignatureComponents { v: val_at(i)?, r: val_at(i + 1)?, s: val_at(i + 2)? }
SignatureAt(d, i) ==
    Try(ValAt(d, i, ValU64), LAMBDA v :
    Try(ValAt(d, i + 1, ValU256), LAMBDA r :
    Try(ValAt(d, i + 2, ValU256), LAMBDA s :
    Ok([v |-> v, r |-> r, s |-> s]))))

\* Transaction::decode: the hash is the keccak of the bytes received.
TransactionDecode(d) ==
    Try(ItemCount(d), LAMBDA n :
        IF n # 9 THEN Err("RlpIncorrectListLen")
        ELSE Try(SignatureAt(d, 6), LAMBDA sig :
             Try(decode_data(d), LAMBDA body :
             Ok(UnverifiedNew(Legacy(body), sig, keccak(d))))))

\* Rlp::list_at(1) of an access-list entry: its storage keys.
RECURSIVE KeysDecode(_)
KeysDecode(items) ==
    IF items = <<>> THEN Ok(<<>>)
    ELSE Try(ValH256(Head(items)), LAMBDA k :
         Try(KeysDecode(Tail(items)), LAMBDA rest :
         Ok(<<k>> \o rest)))

\* Rlp::list_at(i): at(i)?.as_list(); the iterator of as_list ends at the
\* first item it cannot reach, so what is no list has no items.
ListAt(b, i) ==
    Try(At(b, i), LAMBDA l :
        IF Items(l).err # "ok" THEN Ok(<<>>) ELSE KeysDecode(Items(l).val))

\* One turn of the loop of AccessListTx::decode, accounts being accl_rlp.at(i)?.
EntryDecode(accounts) ==
    Try(ItemCount(accounts), LAMBDA n :
        IF n # 2 THEN Err("Unknown access list lenght")
        ELSE Try(ValAt(accounts, 0, ValH160), LAMBDA address :
             Try(ListAt(accounts, 1), LAMBDA keys :
             Ok([address |-> address, keys |-> keys]))))

\* The loop of AccessListTx::decode over the items of accl_rlp.
RECURSIVE EntriesDecode(_)
EntriesDecode(items) ==
    IF items = <<>> THEN Ok(<<>>)
    ELSE Try(EntryDecode(Head(items)), LAMBDA e :
         Try(EntriesDecode(Tail(items)), LAMBDA rest :
         Ok(<<e>> \o rest)))

\* AccessListTx::decode, of the bytes that start with the type byte.
AccessListTxDecode(tx) ==
    Try(ItemCount(Drop(tx, 1)), LAMBDA n :
        IF n # 10 THEN Err("RlpIncorrectListLen")
        ELSE Try(decode_data(Drop(tx, 1)), LAMBDA transaction :
             Try(At(Drop(tx, 1), 6), LAMBDA accl_rlp :
             Try(Items(accl_rlp), LAMBDA its :
             Try(EntriesDecode(its), LAMBDA accl :
             Try(SignatureAt(Drop(tx, 1), 7), LAMBDA sig :
             Ok(compute_hash(UnverifiedNew(AccessList(transaction, accl),
                                           sig, ZeroHash)))))))))

\* A decode that gives every typed envelope, whatever its type byte, to the
\* decoder of access-list transactions.
TypedDecodeAnyType(tx) ==
    IF IsNull(tx) THEN Err("RlpIncorrectListLen")
    ELSE IF IsList(tx) THEN TransactionDecode(tx)
    ELSE Try(Data(tx), LAMBDA tx_data :
             IF tx_data = <<>> THEN Err("panic")
             ELSE AccessListTxDecode(tx_data))

\* TypedTransaction::decode.  tx_data[0] of an empty byte string is an
\* index out of bounds: the program panics.
TypedDecode(tx) ==
    IF IsNull(tx) THEN Err("RlpIncorrectListLen")
    ELSE IF IsList(tx) THEN TransactionDecode(tx)
    ELSE Try(Data(tx), LAMBDA tx_data :
             IF tx_data = <<>> THEN Err("panic")
             ELSE IF tx_data[1] = 3 THEN AccessListTxDecode(tx_data)
             ELSE Err("Unknown transaction"))

\* ------------------------------------------------------------------------
\* UnverifiedTransaction and SignedTransaction
\* ------------------------------------------------------------------------

\* UnverifiedTransaction::is_unsigned
is_unsigned(u) == u.signature.r = <<>> /\ u.signature.s = <<>>

\* UnverifiedTransaction::standard_v
standard_v(u) == check_replay_protection(u.signature.v)

\* UnverifiedTransaction::chain_id
chain_id(u) ==
    IF is_unsigned(u) THEN Some(u.signature.v)
    ELSE IF GreaterEq(u.signature.v, U64(35))
        THEN Some(Half(WrappingSub(u.signature.v, U64(35))))
    ELSE None

\* signature() with the standard v taken mod 2, so that 4 becomes 0.
signature_mod_2(u) == [r |-> u.signature.r, s |-> u.signature.s, v |-> standard_v(u) % 2]

\* UnverifiedTransaction::signature (Signature::from_rsv)
signature(u) == [r |-> u.signature.r, s |-> u.signature.s, v |-> standard_v(u)]

\* UnverifiedTransaction::check_low_s
check_low_s(u) ==
    IF ~is_low_s(signature(u).s) THEN "InvalidSignature" ELSE "ok"

\* UnverifiedTransaction::recover_public
recover_public(u) == recover(signature(u), TypedHash(u.unsigned, chain_id(u)))

\* verify_basic without the comparison of the chain ids.
verify_basic_any_chain(u, low_s, expected) ==
    IF u.signature.r = <<>> /\ u.signature.s = <<>> THEN "InvalidSignature"
    ELSE IF low_s /\ ~is_low_s(u.signature.s) THEN "InvalidSignature"
    ELSE "ok"

\* verify_basic that compares the chain ids only when one is expected.
verify_basic_if_expected(u, low_s, expected) ==
    IF u.signature.r = <<>> /\ u.signature.s = <<>> THEN "InvalidSignature"
    ELSE IF low_s /\ ~is_low_s(u.signature.s) THEN "InvalidSignature"
    ELSE IF ~chain_id(u).some \/ ~expected.some THEN "ok"
    ELSE IF chain_id(u).val = expected.val THEN "ok"
    ELSE "InvalidChainId"

\* UnverifiedTransaction::verify_basic: "ok" or the error
verify_basic(u, low_s, expected) ==
    IF is_unsigned(u) THEN "InvalidSignature"
    ELSE IF low_s /\ check_low_s(u) # "ok" THEN check_low_s(u)
    ELSE IF ~chain_id(u).some THEN "ok"
    ELSE IF expected.some /\ chain_id(u).val = expected.val THEN "ok"
    ELSE "InvalidChainId"

\* SignedTransaction::new taking an empty signature for that of nobody, as
\* null_sign does.
SignedNewOfUnsigned(transaction) ==
    IF transaction.signature.r = <<>> /\ transaction.signature.s = <<>>
    THEN Ok([transaction |-> transaction, sender |-> UNSIGNED_SENDER, public |-> None])
    ELSE Try(recover(signature(transaction),
                     TypedHash(transaction.unsigned, chain_id(transaction))),
             LAMBDA public :
                 Ok([transaction |-> transaction,
                     sender |-> public_to_address(public),
                     public |-> Some(public)]))

\* SignedTransaction::new keeping the key without deriving the sender of it.
SignedNewWithoutSender(transaction) ==
    IF transaction.signature.r = <<>> /\ transaction.signature.s = <<>>
    THEN Err("InvalidSignature")
    ELSE Try(recover(signature(transaction),
                     TypedHash(transaction.unsigned, chain_id(transaction))),
             LAMBDA public :
                 Ok([transaction |-> transaction,
                     sender |-> UNSIGNED_SENDER,
                     public |-> Some(public)]))

\* SignedTransaction::new
SignedNew(transaction) ==
    IF is_unsigned(transaction) THEN Err("InvalidSignature")
    ELSE Try(recover_public(transaction), LAMBDA public :
             Ok([transaction |-> transaction,
                 sender |-> public_to_address(public),
                 public |-> Some(public)]))

\* TypedTransaction::with_signature, the arithmetic of v wrapping
with_signature(t, sig, chain) ==
    compute_hash([unsigned |-> t,
                  signature |-> [r |-> sig.r, s |-> sig.s,
                                 v |-> add_chain_replay_protection(U64(sig.v), chain)],
                  hash |-> ZeroHash])

\* with_signature as the build runs it: with overflow checks (a debug
\* build) an overflow of v panics, without them v wraps.
WithSignatureResult(t, sig, chain, overflow_checks) ==
    IF overflow_checks /\ add_chain_replay_protection_overflows(U64(sig.v), chain)
    THEN Err("panic")
    ELSE Ok(with_signature(t, sig, chain))

\* Result::expect: an error panics.
Expect(r, K(_)) == IF r.err # "ok" THEN Err("panic") ELSE K(r.val)

\* TypedTransaction::sign
TypedSign(t, secret, chain, overflow_checks) ==
    Expect(sign(secret, TypedHash(t, chain)), LAMBDA sig :
    Try(WithSignatureResult(t, sig, chain, overflow_checks), LAMBDA u :
    Expect(SignedNew(u), Ok)))

\* TypedTransaction::fake_sign
fake_sign(t, from) ==
    [transaction |-> compute_hash([unsigned |-> t,
                                   signature |-> [r |-> <<1>>, s |-> <<1>>, v |-> U64(0)],
                                   hash |-> ZeroHash]),
     sender |-> from,
     public |-> None]

\* TypedTransaction::null_sign
null_sign(t, chain) ==
    [transaction |-> compute_hash([unsigned |-> t,
                                   signature |-> [r |-> <<>>, s |-> <<>>, v |-> chain],
                                   hash |-> ZeroHash]),
     sender |-> UNSIGNED_SENDER,
     public |-> None]

\* LocalizedTransaction::sender that recovers the sender whatever the cache
\* holds.
sender_recovered(signed, cache) ==
    IF signed.signature.r = <<>> /\ signed.signature.s = <<>>
    THEN Ok([ret |-> UNSIGNED_SENDER, cached_sender |-> cache])
    ELSE Expect(recover(signature(signed), TypedHash(signed.unsigned, chain_id(signed))),
                LAMBDA public :
                    Ok([ret |-> public_to_address(public),
                        cached_sender |-> Some(public_to_address(public))]))

\* LocalizedTransaction::sender, of the signed part and the cache: what is
\* returned and what the cache holds then, or the panic of expect().
sender(signed, cache) ==
    IF cache.some THEN Ok([ret |-> cache.val, cached_sender |-> cache])
    ELSE IF is_unsigned(signed) THEN Ok([ret |-> UNSIGNED_SENDER, cached_sender |-> cache])
    ELSE Expect(recover_public(signed), LAMBDA public :
             Ok([ret |-> public_to_address(public),
                 cached_sender |-> Some(public_to_address(public))]))

\* ------------------------------------------------------------------------
\* The bounds of the model and the inputs drawn within them
\* ------------------------------------------------------------------------

MaxDataLen == 1

MaxAccessList == 2

\* 3000 and 50000, as the tests have them
GasPrice == <<11, 184>>

Gas == <<195, 80>>

\* The transaction body with k bytes of data: a creation with nonce 0 for
\* an even k, a call with nonce 42 for an odd one.
Body(k) ==
    [nonce |-> IF k % 2 = 0 THEN <<>> ELSE <<42>>,
     gas_price |-> GasPrice, gas |-> Gas,
     action |-> IF k % 2 = 0 THEN Create ELSE Call(Repeat(53, 20)),
     value |-> <<1>>, data |-> Repeat(200, k)]

Bodies == {Body(k) : k \in 0..MaxDataLen}

\* The access list of n entries, the i-th with i - 1 storage keys.
AccessListOf(n) ==
    [i \in 1..n |-> [address |-> Repeat(16 + i, 20),
                     keys |-> [j \in 1..(i - 1) |-> Repeat(32 * i + j, 32)]]]

\* Every body as a legacy transaction, and every access list with one of them.
Txs ==
    {Legacy(b) : b \in Bodies}
    \cup {AccessList(Body(n % (MaxDataLen + 1)), AccessListOf(n)) : n \in 0..MaxAccessList}

\* 2^63 - 19, the largest chain id whose v fits 64 bits for both recovery
\* ids, and 2^63, whose double does not.
LargeChainId == <<127, 255, 255, 255, 255, 255, 255, 237>>

HugeChainId == <<128, 0, 0, 0, 0, 0, 0, 0>>

ChainIds == {U64(0), U64(1), U64(69), LargeChainId, HugeChainId}

ChainArgs == {None} \cup {Some(c) : c \in ChainIds}

\* Signatures a caller may hand to with_signature or to the constructor:
\* of nobody and the empty one, and of nobody with a high s.
HighS == <<128>> \o Repeat(0, 31)

Signatures == {[r |-> <<9>>, s |-> <<7>>, v |-> 0], [r |-> <<>>, s |-> <<>>, v |-> 1]}

HighSignature == [r |-> <<9>>, s |-> HighS, v |-> 1]

\* The SignatureComponents a caller builds of a signature and a v of 27 + id.
SignatureOfNobody(sig) == [r |-> sig.r, s |-> sig.s, v |-> U64(27 + sig.v)]

\* An access-list transaction's bytes with the given encoded access list.
WithAccessList(accl) ==
    RlpStr(<<3>> \o RlpList(rlp_append_open(Body(0), None) \o <<accl>>
                            \o SignatureAppend([v |-> U64(0), r |-> <<9>>, s |-> <<7>>])))

\* The nine items of a signed legacy transaction and the ten of a signed
\* access-list transaction.
NineItems ==
    rlp_append_open(Body(0), None) \o SignatureAppend([v |-> U64(27), r |-> <<9>>, s |-> <<7>>])

TenItems ==
    rlp_append_open(Body(0), None) \o <<RlpList(<<>>)>>
    \o SignatureAppend([v |-> U64(0), r |-> <<9>>, s |-> <<7>>])

\* A typed envelope: the type byte and a list, as one byte string.
Envelope(type, items) == RlpStr(<<type>> \o RlpList(items))

\* Bytes that arrive from the network and are no encoding of a transaction:
\* nothing, the empty byte string, a type byte alone, an unknown type, lists
\* of the wrong length, an access-list entry of one item, the type byte 0
\* alone and before the ten items of an access-list transaction, a bare list
\* of those ten items, and the type byte 3 before nine items.
Malformed ==
    {<<>>, <<128>>, <<3>>, <<1>>, <<192>>, RlpStr(<<3, 192>>),
     RlpList(rlp_append_open(Body(0), None)),
     WithAccessList(RlpList(<<RlpList(<<RlpStr(Repeat(17, 20))>>)>>)),
     <<0>>, Envelope(0, TenItems), RlpList(TenItems), Envelope(3, NineItems)}

\* ------------------------------------------------------------------------
\* The state: one transaction on its way through the pipeline
\* ------------------------------------------------------------------------

VARIABLES
    unsigned,   \* the TypedTransaction the caller constructed
    utx,        \* the UnverifiedTransaction at hand, if any
    stx,        \* the SignedTransaction at hand, if any
    wire,       \* the encoded bytes at hand, if any
    res,        \* the last operation and how it ended
    hist,       \* history: where utx, stx and wire come from
    arg,        \* the argument of the function applied on its own, if any
    out,        \* what that function returned, if it was applied
    cached_sender,  \* LocalizedTransaction::cached_sender
    callers     \* the calls of LocalizedTransaction::sender, each with its place

vars == <<unsigned, utx, stx, wire, res, hist, arg, out, cached_sender, callers>>

\* What the operations of the pipeline do not touch.
others == <<arg, out, cached_sender, callers>>

Result(op, err) == [op |-> op, err |-> err, low_s |-> FALSE, expected |-> None]

\* Where an UnverifiedTransaction or its bytes come from: the operation that
\* made it, the secret, the chain id and the signature given to it, the chain
\* id its v was encoded anew for, and the bytes it was decoded from.
Origin(how, secret, chain) ==
    [how |-> how, secret |-> secret, chain |-> chain, replay |-> None, src |-> <<>>,
     sig |-> [r |-> <<>>, s |-> <<>>, v |-> 0]]

NoOrigin == Origin("none", 0, None)

Init ==
    /\ unsigned \in Txs
    /\ utx = None
    /\ stx = None
    /\ wire = None
    /\ res = Result("init", "ok")
    /\ hist = [utx |-> NoOrigin, wire |-> NoOrigin, stx |-> "none"]
    /\ arg = None
    /\ out = None
    /\ cached_sender = None
    /\ callers = <<>>

\* Nothing was made of the transaction yet.
Fresh == res.op = "init"

\* tx.sign(secret, chain): the SignedTransaction, and its UnverifiedTransaction
Sign(secret, chain, overflow_checks) ==
    LET r == TypedSign(unsigned, secret, chain, overflow_checks)
    IN  /\ Fresh
        /\ stx' = IF r.err = "ok" THEN Some(r.val) ELSE None
        /\ utx' = IF r.err = "ok" THEN Some(r.val.transaction) ELSE None
        /\ res' = Result("sign", r.err)
        /\ hist' = [utx |-> Origin("sign", secret, chain), wire |-> NoOrigin,
                    stx |-> IF r.err = "ok" THEN "sign" ELSE "none"]
        /\ UNCHANGED <<unsigned, wire, others>>

\* tx.with_signature(sig, chain)
WithSignature(sig, chain, overflow_checks) ==
    LET r == WithSignatureResult(unsigned, sig, chain, overflow_checks)
    IN  /\ Fresh
        /\ utx' = IF r.err = "ok" THEN Some(r.val) ELSE None
        /\ res' = Result("with_signature", r.err)
        /\ hist' = [hist EXCEPT !.utx = [Origin("with_signature", 0, chain)
                                           EXCEPT !.sig = sig]]
        /\ UNCHANGED <<unsigned, stx, wire, others>>

\* tx.fake_sign(from)
FakeSign(from) ==
    /\ Fresh
    /\ stx' = Some(fake_sign(unsigned, from))
    /\ utx' = Some(fake_sign(unsigned, from).transaction)
    /\ res' = Result("fake_sign", "ok")
    /\ hist' = [utx |-> Origin("fake_sign", 0, None), wire |-> NoOrigin, stx |-> "fake_sign"]
    /\ UNCHANGED <<unsigned, wire, others>>

\* tx.null_sign(chain)
NullSign(chain) ==
    /\ Fresh
    /\ stx' = Some(null_sign(unsigned, chain))
    /\ utx' = Some(null_sign(unsigned, chain).transaction)
    /\ res' = Result("null_sign", "ok")
    /\ hist' = [utx |-> Origin("null_sign", 0, Some(chain)), wire |-> NoOrigin,
                stx |-> "null_sign"]
    /\ UNCHANGED <<unsigned, wire, others>>

\* UnverifiedTransaction::new(tx, signature, hash), the public constructor
NewUnverified(sig, hash) ==
    /\ Fresh
    /\ utx' = Some(UnverifiedNew(unsigned, sig, hash))
    /\ res' = Result("UnverifiedTransaction::new", "ok")
    /\ hist' = [hist EXCEPT !.utx = Origin("new", 0, None)]
    /\ UNCHANGED <<unsigned, stx, wire, others>>

\* Bytes arrive from the network.
Receive(b) ==
    /\ Fresh
    /\ wire' = Some(b)
    /\ res' = Result("receive", "ok")
    /\ hist' = [hist EXCEPT !.wire = Origin("network", 0, None)]
    /\ UNCHANGED <<unsigned, utx, stx, others>>

\* rlp::encode(&utx)
Encode ==
    /\ utx.some
    /\ wire' = Some(rlp_bytes(utx.val))
    /\ res' = Result("encode", "ok")
    /\ hist' = [hist EXCEPT !.wire = hist.utx]
    /\ UNCHANGED <<unsigned, utx, stx, others>>

\* The UnverifiedTransaction u with its v encoded anew for the chain id b:
\* the same body, r, s and recovery id.
Reencoded(u, b) ==
    [u EXCEPT !.signature.v = add_chain_replay_protection(U64(standard_v(u)), Some(b))]

\* Somebody takes the bytes of a transaction signed for one chain and
\* encodes its v anew for the chain id b.
Replay(b) ==
    /\ wire.some
    /\ hist.wire.how = "sign"
    /\ hist.wire.chain.some
    /\ hist.wire.chain.val # b
    /\ ~hist.wire.replay.some
    /\ TypedDecode(wire.val).err = "ok"
    /\ wire' = Some(rlp_bytes(Reencoded(TypedDecode(wire.val).val, b)))
    /\ res' = Result("replay", "ok")
    /\ hist' = [hist EXCEPT !.wire.replay = Some(b)]
    /\ UNCHANGED <<unsigned, utx, stx, others>>

\* rlp::decode(&wire)
Decode ==
    LET r == TypedDecode(wire.val)
    IN  /\ wire.some
        /\ utx' = IF r.err = "ok" THEN Some(r.val) ELSE None
        /\ stx' = None
        /\ res' = Result("decode", r.err)
        /\ hist' = [utx |-> [hist.wire EXCEPT !.src = wire.val], wire |-> hist.wire,
                    stx |-> "none"]
        /\ UNCHANGED <<unsigned, wire, others>>

\* SignedTransaction::new(utx)
NewSigned ==
    LET r == SignedNew(utx.val)
    IN  /\ utx.some
        /\ stx' = IF r.err = "ok" THEN Some(r.val) ELSE None
        /\ res' = Result("SignedTransaction::new", r.err)
        /\ hist' = [hist EXCEPT !.stx = IF r.err = "ok" THEN "new" ELSE "none"]
        /\ UNCHANGED <<unsigned, utx, wire, others>>

\* utx.verify_basic(low_s, expected)
VerifyBasic(low_s, expected) ==
    /\ utx.some
    /\ res' = [op |-> "verify_basic", err |-> verify_basic(utx.val, low_s, expected),
               low_s |-> low_s, expected |-> expected]
    /\ UNCHANGED <<unsigned, utx, stx, wire, hist, others>>

Next ==
    \/ \E k \in Secrets \cup {0}, c \in ChainArgs, oc \in BOOLEAN : Sign(k, c, oc)
    \/ \E sig \in Signatures, c \in ChainArgs, oc \in BOOLEAN : WithSignature(sig, c, oc)
    \/ FakeSign(Repeat(105, 20))
    \/ \E c \in {U64(1), U64(37)} : NullSign(c)
    \/ \E sig \in Signatures \cup {HighSignature} :
           NewUnverified(SignatureOfNobody(sig), ZeroHash)
    \/ \E b \in Malformed : Receive(b)
    \/ Encode
    \/ \E b \in {U64(1), U64(69)} : Replay(b)
    \/ Decode
    \/ NewSigned
    \/ \E low_s \in BOOLEAN, e \in {None, Some(U64(1))} : VerifyBasic(low_s, e)

Spec == Init /\ [][Next]_vars

\* ------------------------------------------------------------------------
\* The properties
\* ------------------------------------------------------------------------

\* The UnverifiedTransaction at hand was decoded from bytes.
Decoded == utx.some /\ hist.utx.src # <<>>

\* The address of the key of a secret.
AddressOf(secret) == public_to_address(Public(secret))

\* C1: bytes that encode a transaction, legacy or access-list, decoded and
\* then encoded again give the bytes decoded.
C1_DecodeEncodeRoundTrip ==
    (res.op = "encode" /\ hist.wire.src # <<>> /\ hist.wire.how # "network")
        => wire.val = hist.wire.src

\* An access-list transaction with the longest access list, an entry with
\* storage keys in it, went around.
C1_Witness ==
    /\ res.op = "encode"
    /\ hist.wire.src # <<>>
    /\ hist.wire.how = "sign"
    /\ utx.val.unsigned.type = "AccessList"
    /\ Len(utx.val.unsigned.access_list) = MaxAccessList
    /\ utx.val.unsigned.access_list[MaxAccessList].keys # <<>>
    /\ wire.val = hist.wire.src

\* C2: what decode(encode(sign(tx, chainId))) gives has the fields of tx, and
\* SignedTransaction::new of it gives the address of the signer, for every
\* valid key and every chainId.
C2_SignedRoundTrip ==
    (hist.utx.how = "sign" /\ hist.utx.secret \in Secrets /\ ~hist.utx.replay.some)
        => /\ res.op = "sign" => res.err = "ok"
           /\ Decoded => utx.val.unsigned = unsigned
           /\ (Decoded /\ res.op = "SignedTransaction::new")
                  => /\ res.err = "ok"
                     /\ stx.val.sender = AddressOf(hist.utx.secret)

\* C3: the cached hash of every UnverifiedTransaction is the hash of its
\* signed encoding, however it was constructed.
C3_CachedHash == utx.some => utx.val.hash = keccak(rlp_bytes(utx.val))

\* C4: decoding bytes that encode no transaction returns a decode error: it
\* neither panics nor gives a transaction.
C4_MalformedIsError ==
    (res.op = "decode" /\ hist.utx.how = "network") => res.err \notin {"ok", "panic"}

\* C5: a SignedTransaction with a public key comes from SignedTransaction::new
\* (directly or in sign), the key is the one recovered from its signature over
\* its signing hash and the sender is the address of that key; the results of
\* fake_sign and null_sign have no public key.
C5_PublicKeyIsRecovered ==
    stx.some =>
        /\ stx.val.public.some =>
               /\ hist.stx \in {"sign", "new"}
               /\ recover(signature(stx.val.transaction),
                          TypedHash(stx.val.transaction.unsigned,
                                    chain_id(stx.val.transaction)))
                      = Ok(stx.val.public.val)
               /\ stx.val.sender = public_to_address(stx.val.public.val)
        /\ hist.stx \in {"fake_sign", "null_sign"} => ~stx.val.public.some

\* A decoded transaction was verified, and its key is the signer's.
C5_Witness ==
    /\ stx.some
    /\ hist.stx = "new"
    /\ Decoded
    /\ stx.val.public = Some(Public(2))
    /\ stx.val.sender = AddressOf(2)

\* C6: SignedTransaction::new of an UnverifiedTransaction with r = 0 and
\* s = 0 is the invalid-signature error and gives no SignedTransaction.
C6_EmptySignatureRejected ==
    (res.op = "SignedTransaction::new" /\ utx.val.signature.r = <<>>
                                       /\ utx.val.signature.s = <<>>)
        => (res.err = "InvalidSignature" /\ ~stx.some)

\* The UnverifiedTransaction of a null_sign result was refused.
C6_Witness ==
    /\ res.op = "SignedTransaction::new"
    /\ hist.utx.how = "null_sign"
    /\ hist.utx.chain = Some(U64(37))
    /\ res.err = "InvalidSignature"
    /\ ~stx.some

\* The chain id embedded in the v of the UnverifiedTransaction at hand.
Embedded == chain_id(utx.val)

\* verify_basic has a non-empty signature before it that passes the check
\* of s, if that check was asked for.
C7_Case ==
    /\ res.op = "verify_basic"
    /\ ~(utx.val.signature.r = <<>> /\ utx.val.signature.s = <<>>)
    /\ res.low_s => is_low_s(utx.val.signature.s)

\* C7: verify_basic of a signature that is not empty accepts a transaction
\* without a chain id whatever is expected, accepts equal chain ids, and
\* answers two unequal chain ids with the chain-id error; an empty signature
\* is a signature error.
C7_VerifyBasicChainId ==
    /\ (res.op = "verify_basic" /\ utx.val.signature.r = <<>>
                                /\ utx.val.signature.s = <<>>)
           => res.err = "InvalidSignature"
    /\ (C7_Case /\ ~Embedded.some) => res.err = "ok"
    /\ (C7_Case /\ Embedded.some /\ res.expected.some /\ Embedded.val = res.expected.val)
           => res.err = "ok"
    /\ (C7_Case /\ Embedded.some /\ res.expected.some /\ Embedded.val # res.expected.val)
           => res.err = "InvalidChainId"

\* A transaction signed for chain 69 was refused on chain 1.
C7_Witness ==
    /\ C7_Case
    /\ res.low_s
    /\ Embedded = Some(U64(69))
    /\ res.expected = Some(U64(1))
    /\ res.err = "InvalidChainId"

\* C8: a transaction signed for one chain, with its v encoded anew for
\* another, is not attributed to the signer by SignedTransaction::new.
C8_ReplayProtection ==
    (res.op = "SignedTransaction::new" /\ res.err = "ok"
        /\ hist.utx.how = "sign" /\ hist.utx.replay.some)
        => stx.val.sender # AddressOf(hist.utx.secret)

\* C9: with_signature(sig, chainId) and then chain_id() give chainId, for a
\* signature that is not empty.
C9_ChainIdRoundTrip ==
    (res.op = "with_signature" /\ hist.utx.sig.r # <<>>)
        => /\ res.err = "ok"
           /\ chain_id(utx.val) = hist.utx.chain

\* C10: sign with a valid secret completes, whatever the chain id, and the
\* sender of its result is the address of the key.
C10_SignCompletes ==
    (res.op = "sign" /\ hist.utx.secret \in Secrets)
        => /\ res.err = "ok"
           /\ stx.val.sender = AddressOf(hist.utx.secret)

\* ------------------------------------------------------------------------
\* The functions of the module applied on their own
\* ------------------------------------------------------------------------

MaxV == 40

MaxAddress == 40

\* Values of v: the small ones, and some that need all the 64 bits.
Vs ==
    {U64(n) : n \in 0..MaxV}
    \cup {<<0, 0, 0, 1, 0, 0, 0, 27>>, <<0, 0, 0, 0, 0, 0, 1, 28>>,
          <<1, 0, 0, 0, 0, 0, 0, 0>>, HugeChainId,
          <<255, 255, 255, 255, 255, 255, 255, 254>>,
          <<255, 255, 255, 255, 255, 255, 255, 255>>}

Addresses == {Repeat(a, 20) : a \in 0..MaxAddress}

\* Items given to the decoder of Action: the empty byte string, addresses,
\* byte strings too short and too long, the empty list and other lists.
ActionItems ==
    {RlpStr(<<>>), RlpList(<<>>), RlpList(<<RlpStr(<<>>)>>),
     RlpList(<<RlpStr(Repeat(1, 20))>>), RlpStr(Repeat(7, 19)), RlpStr(Repeat(7, 21)),
     RlpStr(<<7>>)}
    \cup {RlpStr(a) : a \in Addresses}

Input(kind, val) == [some |-> TRUE, kind |-> kind, val |-> val]

\* The argument is chosen; nothing of the pipeline is in use.
InitFn ==
    /\ unsigned = Legacy(Body(0))
    /\ utx = None
    /\ stx = None
    /\ wire = None
    /\ res = Result("init", "ok")
    /\ hist = [utx |-> NoOrigin, wire |-> NoOrigin, stx |-> "none"]
    /\ \/ \E v \in Vs : arg = Input("v", v)
       \/ arg = Input("action", Create)
       \/ \E a \in Addresses : arg = Input("action", Call(a))
       \/ \E b \in ActionItems : arg = Input("item", b)
    /\ out = None
    /\ cached_sender = None
    /\ callers = <<>>

\* signature::check_replay_protection(v)
CheckReplayProtection ==
    /\ arg.kind = "v"
    /\ ~out.some
    /\ out' = Input("check_replay_protection", check_replay_protection(arg.val))
    /\ UNCHANGED <<unsigned, utx, stx, wire, res, hist, arg, cached_sender, callers>>

\* rlp::encode(&action)
EncodeAction ==
    /\ arg.kind = "action"
    /\ ~out.some
    /\ out' = Input("encode", ActionEncode(arg.val))
    /\ UNCHANGED <<unsigned, utx, stx, wire, res, hist, arg, cached_sender, callers>>

\* rlp::decode::<Action>(item), of an item given or of the one just encoded
DecodeAction ==
    /\ \/ arg.kind = "item" /\ ~out.some
          /\ out' = Input("decode", ActionDecode(arg.val))
       \/ arg.kind = "action" /\ out.some /\ out.kind = "encode"
          /\ out' = Input("decode", ActionDecode(out.val))
    /\ UNCHANGED <<unsigned, utx, stx, wire, res, hist, arg, cached_sender, callers>>

NextFn == CheckReplayProtection \/ EncodeAction \/ DecodeAction

SpecFn == InitFn /\ [][NextFn]_vars

\* v is 35 or more: a byte above the lowest is set, or the lowest is 35 or more.
AtLeast35(v) == (\E i \in 1..(U64Bytes - 1) : v[i] # 0) \/ v[U64Bytes] >= 35

\* C11: check_replay_protection gives 0 for 27, 1 for 28, (v - 1) mod 2 for
\* every v from 35 on, and 4 for every other v; never anything but 0, 1, 4.
C11_CheckReplayProtection ==
    (out.some /\ out.kind = "check_replay_protection") =>
        /\ out.val \in {0, 1, 4}
        /\ arg.val = U64(27) => out.val = 0
        /\ arg.val = U64(28) => out.val = 1
        /\ AtLeast35(arg.val) => out.val = (arg.val[U64Bytes] + 1) % 2
        /\ (~AtLeast35(arg.val) /\ arg.val \notin {U64(27), U64(28)}) => out.val = 4

\* The largest v was given, and 35, 36 and 34 were.
C11_Witness ==
    /\ out.some
    /\ out.kind = "check_replay_protection"
    /\ \/ arg.val = <<255, 255, 255, 255, 255, 255, 255, 255>> /\ out.val = 0
       \/ arg.val = U64(36) /\ out.val = 1
       \/ arg.val = U64(34) /\ out.val = 4

\* The item is an RLP list: its first byte is 0xc0 or more.
IsListItem(b) == b # <<>> /\ b[1] >= 192

\* C13: Create is encoded as the empty byte string and Call(a) as the 20 bytes
\* of a; decoding gives the action back, the empty byte string is Create, a
\* byte string of 20 bytes is Call of them, and a list, the empty list too,
\* fails with the expected-data error and is never Create.
C13_ActionCodec ==
    /\ (out.some /\ out.kind = "encode") =>
        /\ arg.val = Create => out.val = <<128>>
        /\ arg.val # Create => out.val = <<128 + 20>> \o arg.val.addr
    /\ (out.some /\ out.kind = "decode" /\ arg.kind = "action") =>
        out.val = [err |-> "ok", val |-> arg.val]
    /\ (out.some /\ out.kind = "decode" /\ arg.kind = "item") =>
        /\ arg.val = <<128>> => out.val = [err |-> "ok", val |-> Create]
        /\ (Len(arg.val) = 21 /\ arg.val[1] = 128 + 20) =>
            out.val = [err |-> "ok", val |-> Call(SubSeq(arg.val, 2, 21))]
        /\ IsListItem(arg.val) => out.val.err = "RlpExpectedToBeData"
        /\ (out.val.err = "ok" /\ out.val.val = Create) => arg.val = <<128>>

\* The empty list was given to the decoder and refused.
C13_Witness ==
    /\ out.some
    /\ out.kind = "decode"
    /\ arg.kind = "item"
    /\ arg.val = <<192>>
    /\ out.val.err = "RlpExpectedToBeData"

\* C12: decode takes a list for a legacy transaction and accepts it only with
\* 9 items; of a byte string it reads the first byte: 3 goes to the decoder of
\* access-list transactions, which accepts only 10 items, and every other
\* byte, 0 too, is an unknown transaction type.  What is decoded is Legacy
\* exactly when the input was a list.
C12_DecodeDispatch ==
    (res.op = "decode" /\ hist.utx.src # <<>>) =>
        IF hist.utx.src[1] >= 192
        THEN /\ res.err = "ok" => utx.val.unsigned.type = "Legacy"
             /\ (res.err = "ok") => ItemCount(hist.utx.src) = [err |-> "ok", val |-> 9]
             /\ ItemCount(hist.utx.src) # [err |-> "ok", val |-> 9] => res.err # "ok"
        ELSE (Data(hist.utx.src).err = "ok" /\ Data(hist.utx.src).val # <<>>) =>
             /\ res.err = "ok" => utx.val.unsigned.type = "AccessList"
             /\ Data(hist.utx.src).val[1] # 3 => res.err = "Unknown transaction"
             /\ (Data(hist.utx.src).val[1] = 3
                 /\ ItemCount(Drop(Data(hist.utx.src).val, 1)) # [err |-> "ok", val |-> 10])
                => res.err \notin {"ok", "Unknown transaction"}
             /\ res.err = "ok" =>
                 /\ Data(hist.utx.src).val[1] = 3
                 /\ ItemCount(Drop(Data(hist.utx.src).val, 1)) = [err |-> "ok", val |-> 10]

\* The ten items of an access-list transaction arrived under the type byte 0
\* and were refused as an unknown type.
C12_Witness ==
    /\ res.op = "decode"
    /\ hist.utx.src = Envelope(0, TenItems)
    /\ res.err = "Unknown transaction"

\* C16: the cached hash of an access-list UnverifiedTransaction that the
\* module built (decoded or signed, not given to the public constructor) is
\* the keccak of AccessListTx::encode(Some(signature)): the byte 3 and the
\* list of 10 items.
C16_AccessListHash ==
    (utx.some /\ utx.val.unsigned.type = "AccessList" /\ hist.utx.how # "new") =>
        utx.val.hash = keccak(AccessListTxEncode(utx.val.unsigned, Some(utx.val.signature)))

\* The signature of the UnverifiedTransaction at hand is not empty.
SignatureNotEmpty == ~(utx.val.signature.r = <<>> /\ utx.val.signature.s = <<>>)

\* C18: verify_basic with no chain id expected, of a signature that is not
\* empty and whose v (35 or more) carries a chain id, answers with the
\* chain-id error; it answers Ok exactly when the signature is not empty, s
\* is low if that was to be checked, and v carries no chain id or the one
\* that is expected.
C18_VerifyBasicOk ==
    res.op = "verify_basic" =>
        /\ (SignatureNotEmpty /\ (res.low_s => is_low_s(utx.val.signature.s))
                /\ AtLeast35(utx.val.signature.v) /\ ~res.expected.some)
            => res.err = "InvalidChainId"
        /\ res.err = "ok" <=>
            /\ SignatureNotEmpty
            /\ res.low_s => is_low_s(utx.val.signature.s)
            /\ \/ ~AtLeast35(utx.val.signature.v)
               \/ res.expected.some /\ Embedded.val = res.expected.val

\* A transaction signed for chain 1 was verified with no chain id expected
\* and refused.
C18_Witness ==
    /\ res.op = "verify_basic"
    /\ SignatureNotEmpty
    /\ hist.utx.how = "sign"
    /\ Embedded = Some(U64(1))
    /\ ~res.expected.some
    /\ res.err = "InvalidChainId"

\* ------------------------------------------------------------------------
\* SignedTransaction::new of signatures with any v
\* ------------------------------------------------------------------------

\* The r and s of signatures that are not empty: both set, and one of them.
RSs == {[r |-> <<9>>, s |-> <<7>>], [r |-> <<9>>, s |-> <<>>], [r |-> <<>>, s |-> <<7>>]}

\* An UnverifiedTransaction is constructed with a v of the caller's choice,
\* and SignedTransaction::new is applied to it.
NextV ==
    \/ \E v \in Vs, rs \in RSs : NewUnverified([r |-> rs.r, s |-> rs.s, v |-> v], ZeroHash)
    \/ NewSigned

SpecV == Init /\ [][NextV]_vars

\* C17: SignedTransaction::new of a signature that is not empty and whose v
\* is neither 27 nor 28 nor 35 or more returns the invalid-signature error
\* and no SignedTransaction.
C17_SentinelRejected ==
    (res.op = "SignedTransaction::new" /\ SignatureNotEmpty
        /\ utx.val.signature.v \notin {U64(27), U64(28)}
        /\ ~AtLeast35(utx.val.signature.v))
        => /\ res.err = "InvalidSignature"
           /\ ~stx.some

\* A signature with v = 29 and one with v = 0 were refused.
C17_Witness ==
    /\ res.op = "SignedTransaction::new"
    /\ utx.val.signature.r # <<>>
    /\ utx.val.signature.s # <<>>
    /\ utx.val.signature.v \in {U64(29), U64(0), U64(34)}
    /\ res.err = "InvalidSignature"
    /\ ~stx.some

\* ------------------------------------------------------------------------
\* LocalizedTransaction::sender
\* ------------------------------------------------------------------------

MaxCalls == 3

NumCallers == 3

\* The signed parts of LocalizedTransactions: transactions signed with a key,
\* with and without a chain id, a transaction with the empty signature, and
\* transactions with the signature of nobody (v = 29 is no recovery id).
Localized ==
    {TypedSign(t, k, c, FALSE).val.transaction :
        t \in {Legacy(Body(0)), AccessList(Body(1), AccessListOf(1))},
        k \in Secrets, c \in {None, Some(U64(1))}}
    \cup {null_sign(Legacy(Body(0)), U64(1)).transaction}
    \cup {UnverifiedNew(Legacy(Body(k)), [r |-> <<9>>, s |-> <<7>>, v |-> U64(v)], ZeroHash) :
            k \in 0..1, v \in {27, 28, 29}}

\* A call of sender(): where it stands, what it found in the cache, the
\* sender it recovered, and what it returned.
Caller(pc, seen, local, ret) == [pc |-> pc, seen |-> seen, local |-> local, ret |-> ret]

\* A LocalizedTransaction, with the cache empty or set by who constructed it
\* (cached_sender is a public field).
InitSender ==
    /\ unsigned = Legacy(Body(0))
    /\ utx \in {Some(u) : u \in Localized}
    /\ stx = None
    /\ wire = None
    /\ res = Result("init", "ok")
    /\ hist = [utx |-> NoOrigin, wire |-> NoOrigin, stx |-> "none"]
    /\ arg = None
    /\ out = None
    /\ cached_sender \in {None, Some(Repeat(1, 20))}
    /\ callers = <<>>

\* One call of sender(), from its start to its return or its panic.
Sender ==
    LET r == sender(utx.val, cached_sender)
    IN  /\ Len(callers) < MaxCalls
        /\ cached_sender' = IF r.err = "ok" THEN r.val.cached_sender ELSE cached_sender
        /\ callers' = Append(callers,
                             IF r.err = "ok"
                             THEN Caller("done", cached_sender, None, Some(r.val.ret))
                             ELSE Caller("panic", cached_sender, None, None))
        /\ UNCHANGED <<unsigned, utx, stx, wire, res, hist, arg, out>>

NextSender == Sender

SpecSender == InitSender /\ [][NextSender]_vars

\* The last call of sender() and the one before it.
LastCall == callers'[Len(callers')]

\* C14: a call of sender() returns what the cache holds and leaves it; with
\* the cache empty and the signature empty it returns UNSIGNED_SENDER and
\* caches nothing; with the cache empty and a signature it returns the address
\* recovered and the cache holds it.  Every call returns what the call before
\* it returned, and a cache that is set does not change.
C14_SenderIsMemoized ==
    [][Len(callers') = Len(callers) + 1 =>
        /\ cached_sender.some =>
            /\ LastCall.ret = cached_sender
            /\ cached_sender' = cached_sender
        /\ (~cached_sender.some /\ utx.val.signature.r = <<>> /\ utx.val.signature.s = <<>>) =>
            /\ LastCall.ret = Some(UNSIGNED_SENDER)
            /\ cached_sender' = None
        /\ (~cached_sender.some /\ ~(utx.val.signature.r = <<>> /\ utx.val.signature.s = <<>>)
                /\ LastCall.pc = "done") =>
            /\ cached_sender' = LastCall.ret
            /\ recover_public(utx.val).err = "ok"
            /\ LastCall.ret.val = public_to_address(recover_public(utx.val).val)
        /\ (callers # <<>> /\ callers[Len(callers)].pc = "done") =>
            /\ LastCall.pc = "done"
            /\ LastCall.ret = callers[Len(callers)].ret
      ]_vars

\* sender() was called MaxCalls times on a transaction signed with a key:
\* the first call found the cache empty, the others found the address in it.
C14_Witness ==
    /\ Len(callers) = MaxCalls
    /\ callers[1].seen = None
    /\ callers[1].pc = "done"
    /\ cached_sender = Some(AddressOf(1))
    /\ \A i \in 1..MaxCalls : callers[i].ret = cached_sender
    /\ \A i \in 2..MaxCalls : callers[i].seen = cached_sender

\* ------------------------------------------------------------------------
\* LocalizedTransaction::sender, the calls of several callers interleaved
\* ------------------------------------------------------------------------

\* NumCallers callers are about to call sender() on one LocalizedTransaction
\* whose cache is empty.
InitSenders ==
    /\ unsigned = Legacy(Body(0))
    /\ utx \in {Some(u) : u \in Localized}
    /\ stx = None
    /\ wire = None
    /\ res = Result("init", "ok")
    /\ hist = [utx |-> NoOrigin, wire |-> NoOrigin, stx |-> "none"]
    /\ arg = None
    /\ out = None
    /\ cached_sender = None
    /\ callers = [i \in 1..NumCallers |-> Caller("read", None, None, None)]

\* if let Some(sender) = self.cached_sender { return sender; }
ReadCache(i) ==
    /\ callers[i].pc = "read"
    /\ callers' = [callers EXCEPT ![i] =
                     IF cached_sender.some
                     THEN Caller("done", cached_sender, None, cached_sender)
                     ELSE Caller("recover", cached_sender, None, None)]
    /\ UNCHANGED <<unsigned, utx, stx, wire, res, hist, arg, out, cached_sender>>

\* if self.is_unsigned() { return UNSIGNED_SENDER } and
\* let sender = public_to_address(&self.recover_public().expect(..))
Recover(i) ==
    /\ callers[i].pc = "recover"
    /\ callers' = [callers EXCEPT ![i] =
                     IF is_unsigned(utx.val)
                     THEN Caller("done", @.seen, None, Some(UNSIGNED_SENDER))
                     ELSE IF recover_public(utx.val).err # "ok"
                         THEN Caller("panic", @.seen, None, None)
                     ELSE Caller("write", @.seen,
                                 Some(public_to_address(recover_public(utx.val).val)), None)]
    /\ UNCHANGED <<unsigned, utx, stx, wire, res, hist, arg, out, cached_sender>>

\* The cache written with the UNSIGNED_SENDER, not with the sender recovered.
WriteCacheOfNobody(i) ==
    /\ callers[i].pc = "write"
    /\ cached_sender' = Some(UNSIGNED_SENDER)
    /\ callers' = [callers EXCEPT ![i] = Caller("done", @.seen, @.local, @.local)]
    /\ UNCHANGED <<unsigned, utx, stx, wire, res, hist, arg, out>>

\* self.cached_sender = Some(sender); sender
WriteCache(i) ==
    /\ callers[i].pc = "write"
    /\ cached_sender' = callers[i].local
    /\ callers' = [callers EXCEPT ![i] = Caller("done", @.seen, @.local, @.local)]
    /\ UNCHANGED <<unsigned, utx, stx, wire, res, hist, arg, out>>

NextSenders ==
    \/ \E i \in 1..NumCallers : ReadCache(i)
    \/ \E i \in 1..NumCallers : Recover(i)
    \/ \E i \in 1..NumCallers : WriteCache(i)

SpecSenders == InitSenders /\ [][NextSenders]_vars

\* C15: however the steps of the callers interleave, the callers that have
\* returned have all returned the same sender, the cache, once set, holds
\* that sender, and what it holds does not change.
C15_SameSenderForAll ==
    [][/\ \A i, j \in 1..NumCallers :
            (callers'[i].pc = "done" /\ callers'[j].pc = "done")
                => callers'[i].ret = callers'[j].ret
       /\ \A i \in 1..NumCallers :
            (callers'[i].pc = "done" /\ cached_sender'.some)
                => callers'[i].ret = cached_sender'
       /\ cached_sender.some => cached_sender' = cached_sender
      ]_vars

\* Every caller found the cache empty, recovered the sender and wrote it,
\* and all of them returned the address of the signer.
C15_Witness ==
    /\ Len(callers) = NumCallers
    /\ \A i \in 1..NumCallers :
        /\ callers[i].pc = "done"
        /\ callers[i].seen = None
        /\ callers[i].ret = Some(AddressOf(2))
    /\ cached_sender = Some(AddressOf(2))
====
